---- MODULE Spec2Model ----
(***************************************************************************)
(* Model of the input cache protocol, libavformat/cache.c.                 *)
(*                                                                         *)
(* The cache sits in front of an inner URLContext (the source).  Bytes     *)
(* fetched from the source are appended to a temporary file and indexed in *)
(* a tree of CacheEntry keyed by logical position.  The model keeps the    *)
(* Context fields under their own names, the tree as the set of its        *)
(* elements, the temporary file as the sequence of its bytes, and the      *)
(* inner protocol as a fixed byte string with a cursor.                    *)
(***************************************************************************)
EXTENDS Integers, Sequences, FiniteSets, TLC

\* ------------------------------------------------------------------ bounds
MaxSrcLen == 3      \* the source holds 1..MaxSrcLen bytes
MaxSize   == 2      \* read requests ask for 0..MaxSize bytes
MaxPos    == 3      \* seek targets and cursors stay within 0..MaxPos
MaxFile   == 4      \* the temporary file holds at most MaxFile bytes
MaxHit    == 1      \* cache_hit is counted up to MaxHit
MaxMiss   == 2      \* cache_miss is counted up to MaxMiss
MaxFaults == 1      \* at most MaxFaults calls fail in a behaviour

\* --------------------------------------------------------------- constants
SEEK_SET    == 0
SEEK_CUR    == 1
SEEK_END    == 2
AVSEEK_SIZE == 65536

\* `int' is narrower than int64_t: a value stored in an int is reduced
\* modulo IntRange into [-IntHalf, IntHalf).  The width is scaled down so
\* that the arithmetic stays inside the checker's integers.
IntHalf  == 32768
IntRange == 2 * IntHalf

VARIABLES
    root,          \* Context.root: the set of CacheEntry in the tree
    fd,            \* Context.fd: the bytes of the temporary file
    logical_pos,   \* Context.logical_pos
    cache_pos,     \* Context.cache_pos
    inner_pos,     \* Context.inner_pos
    end,           \* Context.end
    is_true_eof,   \* Context.is_true_eof
    cache_hit,     \* Context.cache_hit
    cache_miss,    \* Context.cache_miss
    inner,         \* Context.inner: the cursor of the inner protocol
    srclen,        \* length of the inner protocol's byte string
    faults,        \* number of file and inner-protocol calls that failed
    eof_off,       \* history: least logical_pos at which a read of size > 0
                   \* returned 0, -1 while there is none
    read_sum,      \* history: the sum of the positive counts the reads have
                   \* returned while no seek has been issued, -1 afterwards
    last           \* observation of the most recent call

vars == <<root, fd, logical_pos, cache_pos, inner_pos, end, is_true_eof,
          cache_hit, cache_miss, inner, srclen, faults, eof_off, read_sum,
          last>>

\* ----------------------------------------------------------------- helpers
FFMIN(a, b) == IF a > b THEN b ELSE a

\* Mutant of FFMAX: the first argument is kept, so end is never raised.
FFMAX_first(a, b) == a

FFMAX(a, b) == IF a > b THEN a ELSE b

\* Conversion of an int64_t value to int.
ToInt(x) == ((x + IntHalf) % IntRange) - IntHalf

\* The byte the inner protocol holds at offset i (all bytes distinct).
SrcByte(i) == 65 + i
SrcBytes(p, n) == [i \in 1..n |-> SrcByte(p + i - 1)]

\* The NULL CacheEntry pointer.
NoEntry == [logical_pos |-> -1, physical_pos |-> -1, size |-> -1]

CacheEntry(l, p, s) == [logical_pos |-> l, physical_pos |-> p, size |-> s]

\* cmp(): the int64_t difference of the key and the node's logical_pos,
\* returned as int.
cmp(key, node) == ToInt(key - node.logical_pos)

\* Error codes the calls return (AVERROR of an errno value).
AVERROR_EIO    == -5
AVERROR_ENOMEM == -12
AVERROR_ENOSYS == -38

\* ------------------------------------------------------- the range index
\* av_tree_find(): the element that compares equal to the key, and in
\* next[0] the nearest element below the key.  Both are decided by cmp.
av_tree_find(t, key) ==
    LET exact == {n \in t : cmp(key, n) = 0}
        below == {n \in t : cmp(key, n) > 0}
    IN  [entry |-> IF exact = {} THEN NoEntry ELSE CHOOSE n \in exact : TRUE,
         next0 |-> IF below = {} THEN NoEntry
                   ELSE CHOOSE n \in below :
                            \A m \in below : m.logical_pos <= n.logical_pos]

\* av_tree_insert(): inserts the element unless one comparing equal is in
\* the tree; then the tree is left alone and the element found is returned.
av_tree_insert(t, entry) ==
    LET equal == {n \in t : cmp(entry.logical_pos, n) = 0}
    IN  IF equal = {}
        THEN [root |-> t \cup {entry}, found |-> FALSE, elem |-> NoEntry]
        ELSE [root |-> t, found |-> TRUE, elem |-> CHOOSE n \in equal : TRUE]

\* ------------------------------------------------------ the inner protocol
\* ffurl_seek() on the inner protocol.  ok says whether the protocol
\* carries the request out; a target before 0 is always refused.
ffurl_seek(cur, pos, whence, ok) ==
    LET target == IF whence = SEEK_SET THEN pos
                  ELSE IF whence = SEEK_END THEN srclen + pos
                  ELSE -1
    IN  IF whence = AVSEEK_SIZE
        THEN [ret |-> IF ok THEN srclen ELSE AVERROR_ENOSYS, inner |-> cur]
        ELSE IF ok /\ target >= 0
        THEN [ret |-> target, inner |-> target]
        ELSE [ret |-> AVERROR_EIO, inner |-> cur]

\* ffurl_read() on the inner protocol: an error when ir < 0, no bytes at or
\* behind the end, and otherwise at least one and at most ir bytes.
ffurl_read(cur, size, ir) ==
    LET n == IF cur >= srclen THEN 0 ELSE FFMIN(FFMIN(ir, size), srclen - cur)
    IN  IF ir < 0
        THEN [ret |-> AVERROR_EIO, buf |-> <<>>, inner |-> cur]
        ELSE [ret |-> n, buf |-> SrcBytes(cur, n), inner |-> cur + n]

\* ------------------------------------------------------ the temporary file
\* Mutant of lseek: an offset before the start of the file is taken as 0.
lseek_clamped(file, pos, whence) ==
    LET target == IF whence = SEEK_SET THEN pos
                  ELSE IF whence = SEEK_END THEN Len(file) + pos
                  ELSE -1
    IN  IF target >= 0 THEN target ELSE 0

\* lseek() on the temporary file: the resulting offset, or -1 when it would
\* be negative.  SEEK_CUR never reaches the file.
lseek(file, pos, whence) ==
    LET target == IF whence = SEEK_SET THEN pos
                  ELSE IF whence = SEEK_END THEN Len(file) + pos
                  ELSE -1
    IN  IF target >= 0 THEN target ELSE -1

\* read() at offset off of the temporary file: -1 when sr < 0, else at most
\* sr of the count bytes asked for (0 is a read that delivers nothing).
read(file, off, count, sr) ==
    LET avail == IF off < Len(file) THEN Len(file) - off ELSE 0
        n     == FFMIN(FFMIN(sr, count), avail)
    IN  IF sr < 0
        THEN [ret |-> -1, buf |-> <<>>]
        ELSE [ret |-> n, buf |-> SubSeq(file, off + 1, off + n)]

\* write() at the end of the temporary file: -1 when wr < 0, else at most
\* wr of the size bytes are written.
write(file, buf, size, wr) ==
    LET n == FFMIN(wr, size)
    IN  IF wr < 0
        THEN [ret |-> -1, fd |-> file]
        ELSE [ret |-> n, fd |-> file \o SubSeq(buf, 1, n)]

\* -------------------------------------------------------------- add_entry
\* Mutant of tree_insert_failed: the result of av_tree_insert is not tested.
tree_insert_unchecked(ins) == FALSE

\* The test on av_tree_insert's result: an element was returned and it is
\* not the new one.  The new element is freshly allocated, so any element
\* found in the tree differs from it.
tree_insert_failed(ins) == ins.found

\* add_entry(): appends buf to the temporary file and indexes it at the
\* current logical_pos.  e.mem: the allocations succeed; e.wr: see write.
add_entry(buf, size, e) ==
    LET pos   == lseek(fd, 0, SEEK_END)
        w     == write(fd, buf, size, e.wr)
        entry == CacheEntry(logical_pos, pos, ToInt(w.ret))
        ins   == av_tree_insert(root, entry)
    IN  IF ~e.mem
        THEN [ret |-> AVERROR_ENOMEM, root |-> root, fd |-> fd,
              cache_pos |-> cache_pos, fd_calls |-> 0, size |-> -1,
              log |-> {}]
        ELSE IF pos < 0
        THEN [ret |-> AVERROR_EIO, root |-> root, fd |-> fd,
              cache_pos |-> cache_pos, fd_calls |-> 1, size |-> -1,
              log |-> {"seek in cache failed"}]
        ELSE IF w.ret < 0
        THEN [ret |-> AVERROR_EIO, root |-> root, fd |-> fd,
              cache_pos |-> cache_pos, fd_calls |-> 2, size |-> -1,
              log |-> {"write in cache failed"}]
        ELSE IF tree_insert_failed(ins)
        THEN [ret |-> -1, root |-> ins.root, fd |-> w.fd,
              cache_pos |-> cache_pos, fd_calls |-> 2, size |-> entry.size,
              log |-> {"av_tree_insert failed"}]
        ELSE [ret |-> 0, root |-> ins.root, fd |-> w.fd,
              cache_pos |-> entry.physical_pos + entry.size, fd_calls |-> 2,
              size |-> entry.size, log |-> {}]

\* ------------------------------------------------------------ observation
\* What a call did and returned.
NoCall ==
    [op |-> "none", arg |-> 0, whence |-> -1, ret |-> 0, buf |-> <<>>,
     p0 |-> 0, path |-> "none", run_left |-> 0, sread |-> -2,
     inner_calls |-> 0, fd_calls |-> 0, src_err |-> FALSE,
     add |-> 1, add_size |-> -1, log |-> {}, assert_ok |-> TRUE,
     faults |-> 0]

\* The part of it the state keeps about the most recent call (size is the
\* size asked of a read).
Kept(o) ==
    [op |-> o.op, whence |-> o.whence, ret |-> o.ret,
     size |-> IF o.op = "read" THEN o.arg ELSE 0,
     path |-> o.path, add |-> o.add, assert_ok |-> o.assert_ok]

\* The Context as a record.
Context ==
    [root |-> root, fd |-> fd, logical_pos |-> logical_pos,
     cache_pos |-> cache_pos, inner_pos |-> inner_pos, end |-> end,
     is_true_eof |-> is_true_eof, cache_hit |-> cache_hit,
     cache_miss |-> cache_miss, inner |-> inner]

\* -------------------------------------------------------------- cache_read
\* The entry the lookup yields: the one at logical_pos, else next[0].
found_entry ==
    LET f == av_tree_find(root, logical_pos)
    IN  IF f.entry # NoEntry THEN f.entry ELSE f.next0

\* logical_pos lies inside the run of the entry found.
in_run ==
    /\ found_entry # NoEntry
    /\ logical_pos - found_entry.logical_pos < found_entry.size

\* Mutant of hit_len: the whole request is asked of the temporary file.
hit_len_unclipped(size, entry, in_block_pos) == size

\* The number of bytes asked of the temporary file on a hit.
hit_len(size, entry, in_block_pos) == FFMIN(size, entry.size - in_block_pos)

\* Mutant of hit_ok: a read of the temporary file that delivers nothing
\* ends the call too.
hit_ok_zero(r) == r >= 0

\* Mutant of hit_ok: whatever the read of the temporary file returns ends
\* the call.
hit_ok_any(r) == TRUE

\* Mutant of hit_ok: nothing the read of the temporary file returns ends the
\* call.
hit_ok_never(r) == FALSE

\* The test that ends the call on the hit path.
hit_ok(r) == r > 0

\* cache_read(): the new Context (c) and the observation of the call (o).
\* e.sr: see read; e.sk: the inner seek succeeds; e.ir: see ffurl_read;
\* e.wr, e.mem: see add_entry.
cache_read(size, e) ==
    LET entry == found_entry
        inrun == in_run
        in_block_pos == logical_pos - entry.logical_pos
        assert1 == entry = NoEntry \/ entry.logical_pos <= logical_pos
        physical_target == entry.physical_pos + in_block_pos
        r0    == ToInt(lseek(fd, physical_target, SEEK_SET))
        s     == read(fd, physical_target,
                      hit_len(size, entry, in_block_pos), e.sr)
        r1    == IF r0 >= 0 THEN ToInt(s.ret) ELSE r0
        fdc   == IF ~inrun THEN 0 ELSE IF r0 >= 0 THEN 2 ELSE 1
        \* cache miss or some kind of fault with the cache
        needseek == logical_pos # inner_pos
        sk    == ffurl_seek(inner, logical_pos, SEEK_SET, e.sk)
        r2    == ToInt(sk.ret)
        ipos  == IF needseek THEN r2 ELSE inner_pos
        icur  == IF needseek THEN sk.inner ELSE inner
        rd    == ffurl_read(icur, size, e.ir)
        r3    == ToInt(rd.ret)
        eof   == r3 = 0 /\ size > 0
        assert2 == ~eof \/ end >= logical_pos
        ae    == add_entry(rd.buf, r3, e)
        f1    == IF inrun /\ size > 0 /\ r1 <= 0 THEN 1 ELSE 0
        fa    == IF ae.ret \in {AVERROR_ENOMEM, AVERROR_EIO} \/ ae.size < r3
                 THEN 1 ELSE 0
        o     == [NoCall EXCEPT !.op = "read", !.arg = size,
                      !.p0 = logical_pos,
                      !.run_left = IF inrun THEN entry.size - in_block_pos
                                   ELSE 0,
                      !.sread = IF inrun THEN r1 ELSE -2,
                      !.path = IF inrun THEN "fault" ELSE "miss",
                      !.fd_calls = fdc, !.assert_ok = assert1,
                      !.faults = f1]
    IN  IF inrun /\ hit_ok(r1)
        THEN [c |-> [Context EXCEPT !.logical_pos = logical_pos + r1,
                                    !.cache_hit = cache_hit + 1],
              o |-> [o EXCEPT !.ret = r1, !.buf = s.buf, !.path = "hit"]]
        ELSE IF needseek /\ r2 < 0
        THEN [c |-> [Context EXCEPT !.inner = sk.inner],
              o |-> [o EXCEPT !.ret = r2, !.inner_calls = 1,
                              !.src_err = TRUE, !.faults = f1 + 1,
                              !.log = {"Failed to perform internal seek"}]]
        ELSE IF r3 <= 0
        THEN [c |-> [Context EXCEPT !.inner = rd.inner, !.inner_pos = ipos,
                                    !.is_true_eof = is_true_eof \/ eof],
              o |-> [o EXCEPT !.ret = r3,
                              !.inner_calls = IF needseek THEN 2 ELSE 1,
                              !.src_err = r3 < 0,
                              !.faults = f1 + (IF r3 < 0 THEN 1 ELSE 0),
                              !.assert_ok = assert1 /\ assert2]]
        ELSE [c |-> [Context EXCEPT !.inner = rd.inner,
                                    !.inner_pos = ipos + r3,
                                    !.cache_miss = cache_miss + 1,
                                    !.root = ae.root, !.fd = ae.fd,
                                    !.cache_pos = ae.cache_pos,
                                    !.logical_pos = logical_pos + r3,
                                    !.end = FFMAX(end, logical_pos + r3)],
              o |-> [o EXCEPT !.ret = r3, !.buf = rd.buf,
                              !.inner_calls = IF needseek THEN 2 ELSE 1,
                              !.fd_calls = fdc + ae.fd_calls,
                              !.add = ae.ret, !.add_size = ae.size,
                              !.faults = f1 + fa, !.log = ae.log]]

\* -------------------------------------------------------------- cache_seek
\* Mutant of seek_resolve: SEEK_END is never rewritten.
seek_resolve_cur_only(pos, whence) ==
    IF whence = SEEK_CUR
    THEN [whence |-> SEEK_SET, pos |-> pos + logical_pos]
    ELSE [whence |-> whence, pos |-> pos]

\* The rewriting of SEEK_CUR, and of SEEK_END once the true end is known,
\* into an absolute target.
seek_resolve(pos, whence) ==
    IF whence = SEEK_CUR
    THEN [whence |-> SEEK_SET, pos |-> pos + logical_pos]
    ELSE IF whence = SEEK_END /\ is_true_eof
    THEN [whence |-> SEEK_SET, pos |-> pos + end]
    ELSE [whence |-> whence, pos |-> pos]

\* cache_seek(): the new Context (c) and the observation of the call (o).
\* e.sz: the inner protocol answers AVSEEK_SIZE; e.se: its seek to the end
\* succeeds; e.sb: its seek back to inner_pos succeeds.
cache_seek(pos, whence, e) ==
    LET o  == [NoCall EXCEPT !.op = "seek", !.arg = pos, !.whence = whence,
                             !.p0 = logical_pos]
        q  == ffurl_seek(inner, pos, AVSEEK_SIZE, e.sz)
        s1 == ffurl_seek(inner, -1, SEEK_END, e.se)
        s2 == ffurl_seek(s1.inner, inner_pos, SEEK_SET, e.sb)
        fallback == q.ret <= 0
        size == IF fallback THEN s1.ret ELSE q.ret
        t  == seek_resolve(pos, whence)
        p  == lseek(fd, t.pos, t.whence)
    IN  IF whence = AVSEEK_SIZE
        THEN [c |-> [Context EXCEPT
                        !.inner = IF fallback THEN s2.inner ELSE q.inner,
                        !.is_true_eof = is_true_eof \/ size > 0,
                        !.end = FFMAX(end, size)],
              o |-> [o EXCEPT !.ret = size,
                        !.path = IF fallback THEN "seekend" ELSE "size",
                        !.inner_calls = IF fallback THEN 3 ELSE 1,
                        !.src_err = size < 0 \/ (fallback /\ s2.ret < 0),
                        !.faults = IF ~fallback THEN 0
                                   ELSE (IF s1.ret < 0 THEN 1 ELSE 0)
                                        + (IF s2.ret < 0 THEN 1 ELSE 0),
                        !.log = IF fallback /\ s2.ret < 0
                                THEN {"Inner protocol failed to seekback end"}
                                ELSE {}]]
        ELSE IF t.whence = SEEK_SET /\ t.pos >= 0 /\ t.pos < end
        THEN \* seems within filesize, assume it will not fail
             [c |-> [Context EXCEPT !.logical_pos = t.pos],
              o |-> [o EXCEPT !.ret = t.pos, !.path = "known"]]
        ELSE \* cache miss
             [c |-> IF p >= 0
                    THEN [Context EXCEPT !.logical_pos = p,
                                         !.end = FFMAX(end, p)]
                    ELSE Context,
              o |-> [o EXCEPT !.ret = p, !.path = "lseek", !.fd_calls = 1]]

\* ------------------------------------------------------ the state machine
\* What the temporary file and the inner protocol may do during a read of
\* size bytes: every outcome of the calls the read reaches from this state.
\* A call the read does not reach is listed with one outcome only: a hit
\* makes no source call, a failed inner seek is followed by no read, and
\* add_entry runs only on the k > 0 bytes the source delivered.  A read of
\* size 0 gets nothing from the temporary file and goes on to the source.
\* Failing outcomes are listed while b > 0 more calls may fail.
Env(sr, sk, ir, wr, mem) ==
    [sr |-> sr, sk |-> sk, ir |-> ir, wr |-> wr, mem |-> mem]

MissEnv(size, sr, b) ==
    LET ks == 1..FFMAX(size, 1)
    IN  {Env(sr, TRUE, k, MaxSize, TRUE) : k \in ks}
        \cup (IF b <= 0 THEN {}
              ELSE {Env(sr, FALSE, 1, MaxSize, TRUE) :
                        x \in {y \in {1} : logical_pos # inner_pos}}
                   \cup {Env(sr, TRUE, -1, MaxSize, TRUE)}
                   \cup {Env(sr, TRUE, k, MaxSize, FALSE) : k \in ks}
                   \cup UNION {{Env(sr, TRUE, k, w, TRUE) :
                                    w \in -1..(FFMIN(k, size) - 1)} : k \in ks})

ReadEnv(size) ==
    LET b == MaxFaults - faults
    IN  IF in_run /\ size > 0
        THEN {Env(sr, TRUE, 1, MaxSize, TRUE) : sr \in 1..size}
             \cup (IF b <= 0 THEN {}
                   ELSE UNION {MissEnv(size, sr, b - 1) : sr \in -1..0})
        ELSE MissEnv(size, MaxSize, b)

\* The same with every call carried out in full; the inner protocol may
\* still deliver fewer bytes than asked for.
ReadEnvOk(size) ==
    {Env(MaxSize + 1, TRUE, k, MaxSize + 1, TRUE) : k \in 1..FFMAX(size, 1)}

\* What the inner protocol may do during a seek; only AVSEEK_SIZE calls it.
SeekEnv(whence) ==
    IF whence = AVSEEK_SIZE
    THEN {e \in [sz : BOOLEAN, se : BOOLEAN, sb : BOOLEAN] :
              (e.se /\ e.sb) \/ faults < MaxFaults}
    ELSE [sz : {TRUE}, se : {TRUE}, sb : {TRUE}]

\* The same with every seek carried out; the inner protocol may still not
\* answer AVSEEK_SIZE.
SeekEnvOk(whence) ==
    IF whence = AVSEEK_SIZE
    THEN [sz : BOOLEAN, se : {TRUE}, sb : {TRUE}]
    ELSE [sz : {TRUE}, se : {TRUE}, sb : {TRUE}]

Sizes == 0..MaxSize
SizesOk == 0..(MaxSize + 1)
Whences == {SEEK_SET, SEEK_CUR, SEEK_END, AVSEEK_SIZE}
Offsets(whence) == IF whence = AVSEEK_SIZE THEN {0} ELSE (0 - MaxSize)..MaxPos

\* The Context is zero-initialised; the temporary file and the tree are
\* empty and the inner protocol is open at offset 0.
Init ==
    /\ root = {} /\ fd = <<>>
    /\ logical_pos = 0 /\ cache_pos = 0 /\ inner_pos = 0 /\ end = 0
    /\ is_true_eof = FALSE /\ cache_hit = 0 /\ cache_miss = 0
    /\ inner = 0
    /\ srclen \in 1..MaxSrcLen
    /\ faults = 0
    /\ eof_off = -1
    /\ read_sum = 0
    /\ last = Kept(NoCall)

\* The model's bounds on a Context.
InBounds(c) ==
    /\ Len(c.fd) <= MaxFile
    /\ c.cache_hit <= MaxHit /\ c.cache_miss <= MaxMiss
    /\ c.logical_pos <= MaxPos /\ c.end <= MaxPos /\ c.inner_pos <= MaxPos

\* A call returns: the Context and the observation it leaves.  A failed
\* assertion has aborted the program.
Install(r) ==
    /\ last.assert_ok
    /\ InBounds(r.c)
    /\ root' = r.c.root /\ fd' = r.c.fd
    /\ logical_pos' = r.c.logical_pos /\ cache_pos' = r.c.cache_pos
    /\ inner_pos' = r.c.inner_pos /\ end' = r.c.end
    /\ is_true_eof' = r.c.is_true_eof
    /\ cache_hit' = r.c.cache_hit /\ cache_miss' = r.c.cache_miss
    /\ inner' = r.c.inner
    /\ srclen' = srclen
    /\ faults + r.o.faults <= MaxFaults
    /\ faults' = faults + r.o.faults
    /\ eof_off' = IF r.o.op = "read" /\ r.o.arg > 0 /\ r.o.ret = 0
                     /\ (eof_off < 0 \/ r.o.p0 < eof_off)
                  THEN r.o.p0 ELSE eof_off
    /\ read_sum' = IF r.o.op = "seek" \/ read_sum < 0 THEN -1
                   ELSE read_sum + FFMAX(r.o.ret, 0)
    /\ last' = Kept(r.o)

ReadStep(size, e) == \E r \in {cache_read(size, e)} : Install(r)
SeekStep(pos, whence, e) == \E r \in {cache_seek(pos, whence, e)} : Install(r)

Read == \E size \in Sizes : \E e \in ReadEnv(size) : ReadStep(size, e)
Seek ==
    \E whence \in Whences : \E pos \in Offsets(whence) :
        \E e \in SeekEnv(whence) : SeekStep(pos, whence, e)

Next == Read \/ Seek
Spec == Init /\ [][Next]_vars

ReadOk == \E size \in SizesOk : \E e \in ReadEnvOk(size) : ReadStep(size, e)
SeekOk ==
    \E whence \in Whences : \E pos \in Offsets(whence) :
        \E e \in SeekEnvOk(whence) : SeekStep(pos, whence, e)

NextOk == ReadOk \/ SeekOk
SpecOk == Init /\ [][NextOk]_vars

\* ------------------------------------------- the same with distant offsets
\* The cache in front of a source long enough for logical positions that
\* differ by IntHalf and more: absolute seeks to a few such offsets and reads
\* of one byte, with every call carried out in full.
FarLen == IntRange + 2
FarOffsets == {0, 1, IntHalf - 1, IntHalf, IntHalf + 1, IntRange, IntRange + 1}

InitFar ==
    /\ root = {} /\ fd = <<>>
    /\ logical_pos = 0 /\ cache_pos = 0 /\ inner_pos = 0 /\ end = 0
    /\ is_true_eof = FALSE /\ cache_hit = 0 /\ cache_miss = 0
    /\ inner = 0
    /\ srclen = FarLen
    /\ faults = 0
    /\ eof_off = -1
    /\ read_sum = 0
    /\ last = Kept(NoCall)

\* A call returns, as in Install, with the offsets left unbounded.  No call
\* fails here, so faults stays 0: a result the handler takes for a failure
\* because it does not fit an int is not a failed call.
InstallFar(r) ==
    /\ last.assert_ok
    /\ Len(r.c.fd) <= MaxFile
    /\ r.c.cache_hit <= MaxHit /\ r.c.cache_miss <= MaxMiss
    /\ root' = r.c.root /\ fd' = r.c.fd
    /\ logical_pos' = r.c.logical_pos /\ cache_pos' = r.c.cache_pos
    /\ inner_pos' = r.c.inner_pos /\ end' = r.c.end
    /\ is_true_eof' = r.c.is_true_eof
    /\ cache_hit' = r.c.cache_hit /\ cache_miss' = r.c.cache_miss
    /\ inner' = r.c.inner
    /\ srclen' = srclen
    /\ faults' = faults
    /\ eof_off' = IF r.o.op = "read" /\ r.o.arg > 0 /\ r.o.ret = 0
                     /\ (eof_off < 0 \/ r.o.p0 < eof_off)
                  THEN r.o.p0 ELSE eof_off
    /\ read_sum' = IF r.o.op = "seek" \/ read_sum < 0 THEN -1
                   ELSE read_sum + FFMAX(r.o.ret, 0)
    /\ last' = Kept(r.o)

ReadFar ==
    \E e \in ReadEnvOk(1) : \E r \in {cache_read(1, e)} : InstallFar(r)
SeekFar ==
    \E pos \in FarOffsets : \E e \in SeekEnvOk(SEEK_SET) :
        \E r \in {cache_seek(pos, SEEK_SET, e)} : InstallFar(r)

NextFar == ReadFar \/ SeekFar
SpecFar == InitFar /\ [][NextFar]_vars

\* ------------------------------------------------------------------ claims
\* The claims are stated on the calls that can be issued in a reachable
\* state: cache_read(size, e) and cache_seek(pos, whence, e) are what the
\* call does there, for every request and every outcome e of the calls it
\* makes on the temporary file and on the inner protocol.

\* logical_pos lies inside the range the entry n was fetched for.
Covers(n, p) == n.logical_pos <= p /\ p < n.logical_pos + n.size

\* The observation is that of a call that never touched the inner protocol
\* and returned the source's bytes at the position it was issued at.
FromStore(o) ==
    /\ o.path = "hit"
    /\ o.inner_calls = 0
    /\ o.ret > 0
    /\ o.buf = SrcBytes(o.p0, o.ret)

\* Every outcome of a read in which the read of the temporary file fails
\* (an error, or no bytes), whatever the source then does.
StoreFaultEnv(size) == UNION {MissEnv(size, sr, 1) : sr \in -1..0}

\* C1: read-after-write coherence.  With every call carried out in full, an
\* entry of the index is a range some miss-path read fetched; a read issued
\* at a logical_pos inside such a range is served from the temporary file:
\* it returns the source's bytes at logical_pos and calls the inner
\* protocol neither to seek nor to read, whatever else the index holds.
C1_ReadAfterWrite ==
    \A n \in root : \A size \in 1..MaxSize : \A e \in ReadEnvOk(size) :
        Covers(n, logical_pos) => FromStore(cache_read(size, e).o)

\* C2: seek-then-read round trip.  After an absolute seek to an offset
\* below end that succeeded, a read of size > 0 returns a non-empty prefix of
\* the bytes the source holds at that offset.
C2_SeekThenRead ==
    (last.op = "seek" /\ last.whence = SEEK_SET /\ last.path = "known")
    => \A size \in 1..MaxSize : \A e \in ReadEnvOk(size) :
           LET o == cache_read(size, e).o
           IN  o.ret > 0 /\ o.buf = SrcBytes(logical_pos, o.ret)

\* C3: EOF idempotence.  Once a read of size > 0 has returned 0 at offset
\* eof_off, a read of size > 0 issued at a logical_pos >= eof_off in which
\* no call fails returns 0 as well.
C3_EofIdempotent ==
    (eof_off >= 0 /\ logical_pos >= eof_off)
    => \A size \in 1..MaxSize : \A e \in ReadEnvOk(size) :
           cache_read(size, e).o.ret = 0

\* C3, second half: end never decreases.
C3_EndMonotonic == [][end' >= end]_vars

C5_ZeroRead ==
    \A e \in ReadEnvOk(0) :
        LET r == cache_read(0, e)
        IN  /\ r.o.ret = 0
            /\ r.o.inner_calls = 0
            /\ r.o.fd_calls = 0
            /\ r.c = Context

\* C6: size probe.  A seek with AVSEEK_SIZE returns the length of the
\* source, whether or not the inner protocol answers AVSEEK_SIZE itself;
\* it sets is_true_eof, leaves end at or above the value returned and does
\* not move logical_pos.
C6_SizeProbe ==
    \A e \in SeekEnvOk(AVSEEK_SIZE) :
        LET r == cache_seek(0, AVSEEK_SIZE, e)
        IN  /\ r.o.ret = srclen
            /\ r.c.is_true_eof
            /\ r.c.end >= r.o.ret
            /\ r.c.logical_pos = logical_pos

\* C7: SEEK_END once is_true_eof is set.  A seek relative to the end with
\* end + pos >= 0 sets logical_pos to end + pos and returns it, and calls
\* the inner protocol not at all.
C7_SeekEndAfterEof ==
    is_true_eof
    => \A pos \in Offsets(SEEK_END) : \A e \in SeekEnv(SEEK_END) :
           LET r == cache_seek(pos, SEEK_END, e)
           IN  end + pos >= 0
               => /\ r.o.ret = end + pos
                  /\ r.c.logical_pos = end + pos
                  /\ r.o.inner_calls = 0
                  /\ r.c.inner = inner /\ r.c.inner_pos = inner_pos

\* A seek relative to the end, made with is_true_eof set, that took
\* logical_pos to the end or beyond it.
C7_Witness ==
    /\ last.op = "seek" /\ last.whence = SEEK_END
    /\ is_true_eof
    /\ last.ret = logical_pos /\ logical_pos = end /\ end > 0

C9_MissInsertion ==
    \A size \in 1..MaxSize : \A e \in ReadEnv(size) :
        LET r == cache_read(size, e)
        IN  (r.o.path # "hit" /\ r.o.ret > 0)
            => /\ \E n \in r.c.root : /\ n.logical_pos = logical_pos
                                      /\ n.size = r.o.ret
               /\ r.o.add = 0

\* C10: no duplicate ranges.  The index holds at most one entry for a
\* logical_pos; add_entry called at a logical_pos that is already a key,
\* once its write has succeeded, returns an error, logs it and leaves the
\* index as it was.
C10_NoDuplicate ==
    /\ \A a, b \in root : a.logical_pos = b.logical_pos => a = b
    /\ (\E n \in root : n.logical_pos = logical_pos)
       => \A size \in 1..MaxSize : \A w \in 0..size :
              LET a == add_entry(SrcBytes(logical_pos, size), size,
                                 [wr |-> w, mem |-> TRUE])
              IN  /\ a.ret < 0
                  /\ "av_tree_insert failed" \in a.log
                  /\ a.root = root

\* A read whose add_entry was turned down by the index.
C10_Witness ==
    /\ last.op = "read" /\ last.add = -1
    /\ \E n \in root : n.logical_pos = logical_pos - last.ret

\* C11: cursor monotonicity.  A read moves logical_pos forward by the count
\* it returns when that is positive and leaves it alone when it returns 0 or
\* an error; so while only reads have been issued on a fresh cache,
\* logical_pos is the sum of the positive counts returned so far.
C11_CursorAdvance ==
    /\ read_sum >= 0 => logical_pos = read_sum
    /\ \A size \in Sizes : \A e \in ReadEnv(size) :
           LET r == cache_read(size, e)
           IN  r.c.logical_pos = logical_pos + FFMAX(r.o.ret, 0)

\* Two reads and no seek on a fresh cache have returned three bytes in all.
C11_Witness ==
    /\ read_sum = 3 /\ logical_pos = 3
    /\ cache_hit + cache_miss = 2
    /\ last.op = "read" /\ last.ret > 0

OutOfRange(t) == ~(t.whence = SEEK_SET /\ t.pos >= 0 /\ t.pos < end)

\* C13: out-of-range seeks are delegated.  A seek whose target is not in
\* [0, end) makes no positioning call on the temporary file and is resolved
\* by ffurl_seek on the inner protocol: it returns what that seek returns
\* and on success sets logical_pos to it and leaves end at or above it.
C13_SeekDelegated ==
    \A whence \in {SEEK_SET, SEEK_CUR, SEEK_END} :
        \A pos \in Offsets(whence) : \A e \in SeekEnvOk(whence) :
            LET t == seek_resolve(pos, whence)
                a == ffurl_seek(inner, t.pos, t.whence, TRUE)
                r == cache_seek(pos, whence, e)
            IN  OutOfRange(t)
                => /\ r.o.fd_calls = 0
                   /\ r.o.inner_calls >= 1
                   /\ r.o.ret = a.ret
                   /\ (a.ret >= 0 => /\ r.c.logical_pos = a.ret
                                     /\ r.c.end >= a.ret)

\* C14: SEEK_END before the true end is known.  With is_true_eof not set,
\* a seek relative to the end that succeeds sets logical_pos to the length
\* of the source plus pos, whatever the temporary file holds.
C14_SeekEndBeforeEof ==
    ~is_true_eof
    => \A pos \in Offsets(SEEK_END) : \A e \in SeekEnvOk(SEEK_END) :
           LET r == cache_seek(pos, SEEK_END, e)
           IN  r.o.ret >= 0 => /\ r.o.ret = srclen + pos
                               /\ r.c.logical_pos = srclen + pos

\* C15: once is_true_eof is set, end is the length of the source.
C15_TrueEofExact == is_true_eof => end = srclen

\* C16: end never exceeds the length of the source.
C16_EndLowerBound == end <= srclen

\* C17: cached content integrity.  The bytes the temporary file holds for
\* an entry are the source's bytes at the entry's logical_pos; and when
\* inner_pos equals logical_pos, so that a read on the miss path does not
\* reposition, the cursor of the inner protocol is at logical_pos.
C17_ContentIntegrity ==
    /\ \A n \in root :
           SubSeq(fd, n.physical_pos + 1, n.physical_pos + n.size)
               = SrcBytes(n.logical_pos, n.size)
    /\ inner_pos = logical_pos => inner = logical_pos

\* C18: the assertions of a read never fail.  0 <= logical_pos <= end holds
\* in every state and after every read and seek that can be issued in it,
\* so end >= logical_pos holds where a read of size > 0 gets no bytes from
\* the source.
C18_EofAssertion ==
    /\ 0 <= logical_pos /\ logical_pos <= end
    /\ last.assert_ok
    /\ \A size \in Sizes : \A e \in ReadEnv(size) :
           LET r == cache_read(size, e)
           IN  /\ r.o.assert_ok
               /\ 0 <= r.c.logical_pos /\ r.c.logical_pos <= r.c.end
    /\ \A whence \in Whences : \A pos \in Offsets(whence) :
           \A e \in SeekEnv(whence) :
               LET r == cache_seek(pos, whence, e)
               IN  0 <= r.c.logical_pos /\ r.c.logical_pos <= r.c.end

\* A read of size > 0 got no bytes from the source at logical_pos = end,
\* which a seek had taken beyond the length of the source.
C18_Witness ==
    /\ last.op = "read" /\ last.size > 0 /\ last.ret = 0
    /\ is_true_eof
    /\ logical_pos = end /\ end > srclen

\* C19: a negative seek target is an error.  A SEEK_CUR seek, or a SEEK_END
\* seek with is_true_eof set, whose target is below 0 returns a negative
\* value and leaves the Context and the inner protocol as they were.
C19_NegativeSeek ==
    \A whence \in {SEEK_CUR, SEEK_END} :
        \A pos \in Offsets(whence) : \A e \in SeekEnv(whence) :
            LET base == IF whence = SEEK_CUR THEN logical_pos ELSE end
                r    == cache_seek(pos, whence, e)
            IN  ((whence = SEEK_CUR \/ is_true_eof) /\ base + pos < 0)
                => /\ r.o.ret < 0
                   /\ r.c = Context

\* A SEEK_CUR seek to a target below 0 was refused and logical_pos is where
\* an earlier read left it.
C19_Witness ==
    /\ last.op = "seek" /\ last.whence = SEEK_CUR /\ last.ret < 0
    /\ logical_pos > 0 /\ logical_pos = inner_pos

\* The sign of an integer.
Sign(x) == IF x > 0 THEN 1 ELSE IF x < 0 THEN -1 ELSE 0

\* C20: index ordering over the whole range of offsets.  For the key
\* logical_pos and every entry of the index, cmp has the sign of the
\* difference of the key and the entry's logical_pos; so the lookup yields
\* an entry at logical_pos exactly when there is one, and otherwise the
\* entry with the greatest logical_pos below it, and the assertion
\* entry.logical_pos <= logical_pos of cache_read holds.
C20_IndexOrdering ==
    LET f     == av_tree_find(root, logical_pos)
        exact == {n \in root : n.logical_pos = logical_pos}
        below == {n \in root : n.logical_pos < logical_pos}
    IN  /\ \A n \in root :
               Sign(cmp(logical_pos, n)) = Sign(logical_pos - n.logical_pos)
        /\ (f.entry # NoEntry) = (exact # {})
        /\ f.entry # NoEntry => f.entry \in exact
        /\ (f.entry = NoEntry /\ below = {}) => f.next0 = NoEntry
        /\ (f.entry = NoEntry /\ below # {})
           => /\ f.next0 \in below
              /\ \A m \in below : m.logical_pos <= f.next0.logical_pos
        /\ found_entry # NoEntry => found_entry.logical_pos <= logical_pos
        /\ last.assert_ok

====
